---- MODULE Spec2Model ----
(***************************************************************************)
(* Model of the IPFIX flow accounting plugin (src/ipfix/node.c).           *)
(*                                                                         *)
(* Fast path: process_packet keeps one flow record per 5-tuple in the      *)
(* vector flow_records and its position in the hash index flow_hash.       *)
(* Slow path: ipfix_process_records_fn wakes up, scans flow_records for    *)
(* idle and active expiry, encodes the expired snapshots and hands the     *)
(* datagrams to the dataplane.                                             *)
(*                                                                         *)
(* Library semantics used by the code (vppinfra):                          *)
(*   vec_add1(v, e)          appends e at position vec_len(v)              *)
(*   vec_del1(v, i)          copies the LAST element into slot i (when i   *)
(*                           is not the last) and decrements the length;   *)
(*                           the memory past the new length keeps its      *)
(*                           old content                                   *)
(*   vec_foreach_index(i, v) for (i = 0; i < vec_len(v); i++), the length  *)
(*                           is read again at every iteration              *)
(*   vec_elt_at_index(v, i)  v + i, with ASSERT(i < vec_len(v)) in debug   *)
(*                           images only                                   *)
(* The host is little-endian (x86-64): htonl/ntohl swap four octets.       *)
(* Both nodes run on one thread; the process node is cooperative and       *)
(* suspends only in vlib_process_wait_for_event_or_clock.                  *)
(***************************************************************************)
EXTENDS Integers, Sequences, FiniteSets, TLC

VARIABLES
  clock,            \* CLOCK_REALTIME as a struct timespec [tv_sec, tv_nsec]
  flow_records,     \* memory of the vector im->flow_records (all slots)
  flow_len,         \* vec_len(im->flow_records)
  flow_hash,        \* im->flow_hash: flow key -> position in flow_records
  expired_records,  \* im->expired_records
  data_packets,     \* im->data_packets
  sent,             \* datagrams handed to ip4-lookup, in order
  pc,               \* position of ipfix_process_records_fn
  current_time,     \* its local current_time (ms)
  record_idx,       \* its loop index (record_idx / packet_idx)
  npkts,            \* number of process_packet calls so far
  run,              \* history: current run of same-key packets
  last_rec,         \* history: the record the last scan iteration read
  visited,          \* history: uids of the records the current scan read, in order
  node,             \* position and locals of ipfix_node_fn, and what it did
  hist,             \* history of the export pipeline (kept when hist.on)
  keyio             \* inputs and results of the functions of process_packet
                    \* that are also examined on their own

vars == <<clock, flow_records, flow_len, flow_hash, expired_records,
          data_packets, sent, pc, current_time, record_idx, npkts, run,
          last_rec, visited, node, hist, keyio>>

----------------------------------------------------------------------------
(* Bounds of the model *)

\* process_packet calls in one behaviour; also the modelled vector capacity
MaxPackets == 3

\* the instants at which the wall clock is observed
TimePoints ==
  { [tv_sec |-> 0,  tv_nsec |-> 0],
    [tv_sec |-> 10, tv_nsec |-> 1000000],
    [tv_sec |-> 20, tv_nsec |-> 1000000],
    [tv_sec |-> 30, tv_nsec |-> 1999999] }

----------------------------------------------------------------------------
(* Program constants *)

TCP_PROTOCOL == 6
UDP_PROTOCOL == 17
idle_flow_timeout == 10000
active_flow_timeout == 30000

----------------------------------------------------------------------------
(* Packets offered to the node: IPv4 header fields and the first two      *)
(* 16-bit words of what follows the header, all as they lie in memory.    *)

HostA == <<10, 0, 0, 1>>
HostB == <<10, 0, 0, 2>>

Headers ==
  { [src_address |-> HostA, dst_address |-> HostB, protocol |-> 17,
     l4_word0 |-> <<3, 232>>, l4_word1 |-> <<0, 53>>],
    [src_address |-> HostB, dst_address |-> HostA, protocol |-> 17,
     l4_word0 |-> <<0, 53>>, l4_word1 |-> <<3, 232>>],
    [src_address |-> HostA, dst_address |-> HostB, protocol |-> 1,
     l4_word0 |-> <<8, 0>>, l4_word1 |-> <<247, 255>>] }

\* IPv4 total length, host value of ntohs(packet->length)
Lengths == {40, 300}

Packets ==
  { [hdr |-> h, length |-> l] : h \in Headers, l \in Lengths }

----------------------------------------------------------------------------
(* Byte order helpers *)

\* memory image of a u64 field assigned the u32 result of htonl(v)
htonl(v) ==
  << (v \div 16777216) % 256, (v \div 65536) % 256, (v \div 256) % 256,
     v % 256, 0, 0, 0, 0 >>

\* ntohl of the field: truncate to its low four octets and swap them
ntohl(f) ==
  f[1] * 16777216 + f[2] * 65536 + f[3] * 256 + f[4]

ZeroField == <<0, 0, 0, 0, 0, 0, 0, 0>>

\* memory image of a u64 field x after x = htonl(ntohl(x) + n): the sum is
\* a 32-bit unsigned sum (ntohl takes and returns a uint32_t), carried out
\* here on 16-bit halves; the result of htonl is zero-extended
htonl_add(f, n) ==
  LET lo == f[3] * 256 + f[4] + (n % 65536)
      hi == f[1] * 256 + f[2] + ((n \div 65536) % 65536) + (lo \div 65536)
  IN << (hi \div 256) % 256, hi % 256, (lo \div 256) % 256, lo % 256,
        0, 0, 0, 0 >>

\* ts.tv_sec * 1e3 + ts.tv_nsec / 1e6 converted to u64
NowMs(ts) == ts.tv_sec * 1000 + ts.tv_nsec \div 1000000

----------------------------------------------------------------------------
(* Flow key *)

create_flow_key_any_proto(h) ==
  [ src |-> h.src_address,
    dst |-> h.dst_address,
    protocol |-> h.protocol,
    src_port |-> h.l4_word0,
    dst_port |-> h.l4_word1 ]

create_flow_key(h) ==
  [ src |-> h.src_address,
    dst |-> h.dst_address,
    protocol |-> h.protocol,
    src_port |-> IF h.protocol \in {UDP_PROTOCOL, TCP_PROTOCOL}
                 THEN h.l4_word0 ELSE <<0, 0>>,
    dst_port |-> IF h.protocol \in {UDP_PROTOCOL, TCP_PROTOCOL}
                 THEN h.l4_word1 ELSE <<0, 0>> ]

ZeroKey ==
  [ src |-> <<0, 0, 0, 0>>, dst |-> <<0, 0, 0, 0>>, protocol |-> 0,
    src_port |-> <<0, 0>>, dst_port |-> <<0, 0>> ]

\* a slot of flow_records that was never written (zero filled by vec_resize)
\* uid and rot are history fields: identity of the record, and whether it
\* was reset by an active rotation and not updated since
ZeroRec ==
  [ flow_key |-> ZeroKey, flow_start |-> 0, flow_end |-> 0,
    packet_delta_count |-> ZeroField, octet_delta_count |-> ZeroField,
    uid |-> 0, rot |-> FALSE ]

----------------------------------------------------------------------------
(* vppinfra vectors and the bihash *)

\* vec_del1 that drops the last element without copying it into slot i
vec_del1_drop_last(v, i) ==
  [ j \in 1..(Len(v) - 1) |-> v[j] ]

\* vec_del1 on a vector whose dead slots are never read again
vec_del1(v, i) ==
  [ j \in 1..(Len(v) - 1) |-> IF j = i + 1 THEN v[Len(v)] ELSE v[j] ]

\* vec_del1 on flow_records: the slots past the length keep their content
vec_del1_mem(m, n, i) ==
  IF i < n - 1 THEN [m EXCEPT ![i + 1] = m[n]] ELSE m

\* clib_bihash_add_del_48_8(h, kv, 1)
hash_add(h, k, v) ==
  [ x \in (DOMAIN h) \cup {k} |-> IF x = k THEN v ELSE h[x] ]

\* clib_bihash_add_del_48_8(h, kv, 0); no effect when the key is absent
hash_del(h, k) ==
  [ x \in (DOMAIN h) \ {k} |-> h[x] ]

----------------------------------------------------------------------------
(* Initial state: empty vectors, empty index, process node at its wait *)

NoRun == [key |-> ZeroKey, n |-> 0, sum |-> 0]

\* ipfix_node_fn is not running
NodeIdle ==
  [ pc |-> "idle", frame |-> << >>, from |-> 0, n_left_from |-> 0,
    n_left_to_next |-> 0, bi1 |-> 0, to_next |-> << >>, calls |-> << >>,
    ret |-> 0, nframes |-> 0 ]

\* history switched off. seq and junk are what the memory the export code
\* reads without having written it holds: the sequence number of the
\* packet on the stack of ipfix_process_records_fn, an octet of a data set
HistOff ==
  [ on |-> FALSE, queued |-> << >>, encoded |-> << >>, wire |-> << >>,
    last_tick |-> -1, repeat |-> FALSE, seq |-> 0, junk |-> 0,
    seen |-> << >>, snaps |-> << >> ]

\* no search key under construction
KeyIdle == [ phase |-> "off" ]

Init ==
  /\ clock = [tv_sec |-> 0, tv_nsec |-> 0]
  /\ flow_records = [i \in 1..MaxPackets |-> ZeroRec]
  /\ flow_len = 0
  /\ flow_hash = [x \in {} |-> 0]
  /\ expired_records = << >>
  /\ data_packets = << >>
  /\ sent = << >>
  /\ pc = "wait"
  /\ current_time = 0
  /\ record_idx = 0
  /\ npkts = 0
  /\ run = NoRun
  /\ last_rec = ZeroRec
  /\ visited = << >>
  /\ node = NodeIdle
  /\ hist = HistOff
  /\ keyio = KeyIdle

----------------------------------------------------------------------------
(* Fast path: process_packet *)

\* the record built for a key that is not in the index (status < 0)
new_record(key, now, length, id) ==
  [ flow_key |-> key,
    flow_start |-> now,
    flow_end |-> now,
    packet_delta_count |-> htonl(1),
    octet_delta_count |-> htonl(length),
    uid |-> id, rot |-> FALSE ]

\* update_record with the octet counter overwritten instead of accumulated
update_record_overwrite(rec, now, length) ==
  [ rec EXCEPT !.flow_end = now,
               !.packet_delta_count = htonl_add(rec.packet_delta_count, 1),
               !.octet_delta_count = htonl(length),
               !.rot = FALSE ]

\* the update of the record the index points at (status >= 0)
update_record(rec, now, length) ==
  [ rec EXCEPT !.flow_end = now,
               !.packet_delta_count = htonl_add(rec.packet_delta_count, 1),
               !.octet_delta_count = htonl_add(rec.octet_delta_count, length),
               !.rot = FALSE ]

\* history: the run of packets of one key that started with its insertion
run_after(key, length, inserted) ==
  IF inserted THEN [key |-> key, n |-> 1, sum |-> length]
  ELSE IF run.n > 0 /\ run.key = key
       THEN [key |-> key, n |-> run.n + 1, sum |-> run.sum + length]
       ELSE NoRun

\* dual_bi1 reading from[0] a second time
dual_bi1_same(from) == from + 1

\* bi1 = from[1]: the position in the frame of the second buffer of the
\* dual loop (from counts the buffers consumed, positions start at 1)
dual_bi1(from) == from + 2

\* the locals of ipfix_node_fn after the call it is about to make (the
\* speculative enqueue comes before the call); a call from outside a frame
\* leaves them alone. to_next and calls are the positions in the frame of
\* the buffers enqueued and of the packets given to process_packet
node_after_call ==
  CASE node.pc = "dual" ->
         [ node EXCEPT !.pc = "dual1",
                       !.bi1 = dual_bi1(node.from),
                       !.to_next = @ \o <<node.from + 1, dual_bi1(node.from)>>,
                       !.from = @ + 2,
                       !.n_left_from = @ - 2,
                       !.n_left_to_next = @ - 2,
                       !.calls = Append(@, node.from + 1) ]
    [] node.pc = "dual1" ->
         [ node EXCEPT !.pc = "dual",
                       !.calls = Append(@, node.bi1) ]
    [] node.pc = "single" ->
         [ node EXCEPT !.to_next = Append(@, node.from + 1),
                       !.from = @ + 1,
                       !.n_left_from = @ - 1,
                       !.n_left_to_next = @ - 1,
                       !.calls = Append(@, node.from + 1) ]
    [] OTHER -> node

\* history: a packet was processed since the last tick; seen lists the
\* packets given to process_packet
hist_after_call(p) ==
  IF hist.on
  THEN [hist EXCEPT !.last_tick = -1, !.seen = Append(@, p)]
  ELSE hist

\* status < 0: append a record and index its position
process_packet_insert(p) ==
  LET key == create_flow_key(p.hdr)
      now == NowMs(clock)
  IN /\ pc = "wait"
     /\ npkts < Len(flow_records)
     /\ key \notin DOMAIN flow_hash
     /\ flow_records' = [flow_records EXCEPT
                           ![flow_len + 1] = new_record(key, now, p.length, npkts + 1)]
     /\ flow_len' = flow_len + 1
     /\ flow_hash' = hash_add(flow_hash, key, (flow_len + 1) - 1)
     /\ npkts' = npkts + 1
     /\ run' = run_after(key, p.length, TRUE)
     /\ node' = node_after_call
     /\ hist' = hist_after_call(p)
     /\ UNCHANGED <<clock, expired_records, data_packets, sent, pc,
                    current_time, record_idx, last_rec, visited, keyio>>

\* status >= 0: update the slot the index names. vec_elt_at_index does not
\* check the position in a release image, so a position past the length
\* writes the dead slot
process_packet_update(p) ==
  LET key == create_flow_key(p.hdr)
      now == NowMs(clock)
  IN /\ pc = "wait"
     /\ npkts < Len(flow_records)
     /\ key \in DOMAIN flow_hash
     /\ LET idx == flow_hash[key]
        IN flow_records' = [flow_records EXCEPT
                              ![idx + 1] = update_record(@, now, p.length)]
     /\ npkts' = npkts + 1
     /\ run' = run_after(key, p.length, FALSE)
     /\ node' = node_after_call
     /\ hist' = hist_after_call(p)
     /\ UNCHANGED <<clock, flow_len, flow_hash, expired_records, data_packets,
                    sent, pc, current_time, record_idx, last_rec, visited,
                    keyio>>

\* status >= 0 in a debug image: ASSERT (i < vec_len (v)) of
\* vec_elt_at_index fails on a position past the length and aborts
process_packet_assert(p) ==
  LET key == create_flow_key(p.hdr)
  IN /\ pc = "wait"
     /\ npkts < Len(flow_records)
     /\ key \in DOMAIN flow_hash
     /\ flow_hash[key] >= flow_len
     /\ pc' = "abort"
     /\ npkts' = npkts + 1
     /\ run' = NoRun
     /\ node' = node_after_call
     /\ hist' = hist_after_call(p)
     /\ UNCHANGED <<clock, flow_records, flow_len, flow_hash, expired_records,
                    data_packets, sent, current_time, record_idx, last_rec,
                    visited, keyio>>

process_packet(p) ==
  \/ process_packet_insert(p)
  \/ process_packet_update(p)
  \/ process_packet_assert(p)

----------------------------------------------------------------------------
(* The wall clock never goes backwards. It is observed by process_packet *)
(* and when the process node wakes up, so it is advanced between those.  *)

Tick ==
  /\ pc = "wait"
  /\ node.pc = "idle"
  /\ \E t \in TimePoints :
       /\ \/ t.tv_sec > clock.tv_sec
          \/ t.tv_sec = clock.tv_sec /\ t.tv_nsec > clock.tv_nsec
       /\ clock' = t
  /\ UNCHANGED <<flow_records, flow_len, flow_hash, expired_records,
                 data_packets, sent, pc, current_time, record_idx, npkts,
                 run, last_rec, visited, node, hist, keyio>>

----------------------------------------------------------------------------
(* Slow path: ipfix_process_records_fn *)

\* idle_expired with <= in place of <
idle_expired_le(rec, now) == rec.flow_end + idle_flow_timeout <= now

\* (record->flow_end + idle_flow_timeout) < current_time
idle_expired(rec, now) == rec.flow_end + idle_flow_timeout < now

\* (record->flow_start + active_flow_timeout) < current_time
active_expired(rec, now) == rec.flow_start + active_flow_timeout < now

\* classify with the two branches in the other order
classify_active_first(rec, now) ==
  IF active_expired(rec, now) THEN "active"
  ELSE IF idle_expired(rec, now) THEN "idle"
  ELSE "keep"

\* the if / else if of the scan loop
classify(rec, now) ==
  IF idle_expired(rec, now) THEN "idle"
  ELSE IF active_expired(rec, now) THEN "active"
  ELSE "keep"

\* reset_record that forgets to move flow_end
reset_record_keep_end(rec, now) ==
  [ rec EXCEPT !.flow_start = now,
               !.packet_delta_count = ZeroField,
               !.octet_delta_count = ZeroField,
               !.rot = TRUE ]

\* the in-place reset of an active-expired record
reset_record(rec, now) ==
  [ rec EXCEPT !.flow_start = now,
               !.flow_end = now,
               !.packet_delta_count = ZeroField,
               !.octet_delta_count = ZeroField,
               !.rot = TRUE ]

\* identity of a snapshot in the history: the record and its flow_start
SnapId(rec) == <<rec.uid, rec.flow_start>>

\* process_suspended with a second suspension before the send loop
process_suspended_in_send == pc \in {"wait", "send"}

\* the process node is suspended: vlib_process_wait_for_event_or_clock is
\* the only call of ipfix_process_records_fn that gives up the thread
process_suspended == pc = "wait"

\* ipfix_node_fn never gives up the thread between its entry and its
\* return, so the dispatcher resumes the process node only outside a frame
node_returned == node.pc = "idle"

\* vlib_process_wait_for_event_or_clock returns (timer or event); the
\* clock is read once for the whole scan
scan_begin ==
  /\ process_suspended
  /\ node_returned
  /\ pc' = "scan"
  /\ current_time' = NowMs(clock)
  /\ record_idx' = 0
  /\ last_rec' = ZeroRec
  /\ visited' = << >>
  /\ hist' = IF hist.on
             THEN [hist EXCEPT !.repeat = (hist.last_tick = NowMs(clock))]
             ELSE hist
  /\ UNCHANGED <<clock, flow_records, flow_len, flow_hash, expired_records,
                 data_packets, sent, npkts, run, node, keyio>>

\* an idle-expired record: snapshot, vec_del1, then the key read through
\* the same pointer is removed from the index
scan_idle ==
  LET rec == flow_records[record_idx + 1]
      mem == vec_del1_mem(flow_records, flow_len, record_idx)
  IN /\ pc = "scan"
     /\ record_idx < flow_len
     /\ classify(rec, current_time) = "idle"
     /\ expired_records' = Append(expired_records, rec)
     /\ flow_records' = mem
     /\ flow_len' = flow_len - 1
     /\ flow_hash' = hash_del(flow_hash, mem[record_idx + 1].flow_key)
     /\ record_idx' = record_idx + 1
     /\ last_rec' = rec
     /\ visited' = Append(visited, rec.uid)
     /\ run' = NoRun
     /\ hist' = IF hist.on
                THEN [hist EXCEPT !.queued = Append(@, SnapId(rec)),
                                  !.snaps = Append(@, rec)]
                ELSE hist
     /\ UNCHANGED <<clock, data_packets, sent, pc, current_time, npkts,
                    node, keyio>>

\* an active-expired record: snapshot, then reset in place
scan_active ==
  LET rec == flow_records[record_idx + 1]
  IN /\ pc = "scan"
     /\ record_idx < flow_len
     /\ classify(rec, current_time) = "active"
     /\ expired_records' = Append(expired_records, rec)
     /\ flow_records' = [flow_records EXCEPT
                           ![record_idx + 1] = reset_record(rec, current_time)]
     /\ record_idx' = record_idx + 1
     /\ last_rec' = rec
     /\ visited' = Append(visited, rec.uid)
     /\ run' = NoRun
     /\ hist' = IF hist.on
                THEN [hist EXCEPT !.queued = Append(@, SnapId(rec)),
                                  !.snaps = Append(@, rec)]
                ELSE hist
     /\ UNCHANGED <<clock, flow_len, flow_hash, data_packets, sent, pc,
                    current_time, npkts, node, keyio>>

\* a record that is neither
scan_keep ==
  LET rec == flow_records[record_idx + 1]
  IN /\ pc = "scan"
     /\ record_idx < flow_len
     /\ classify(rec, current_time) = "keep"
     /\ record_idx' = record_idx + 1
     /\ last_rec' = rec
     /\ visited' = Append(visited, rec.uid)
     /\ UNCHANGED <<clock, flow_records, flow_len, flow_hash, expired_records,
                    data_packets, sent, pc, current_time, npkts, run, node,
                    hist, keyio>>

\* record_idx reached vec_len(flow_records): on to the encoding loop
scan_end ==
  /\ pc = "scan"
  /\ record_idx >= flow_len
  /\ pc' = "encode"
  /\ record_idx' = 0
  /\ UNCHANGED <<clock, flow_records, flow_len, flow_hash, expired_records,
                 data_packets, sent, current_time, npkts, run, last_rec,
                 visited, node, hist, keyio>>

\* memory image of a u64 holding v (little-endian host)
u64_image(v) ==
  << v % 256, (v \div 256) % 256, (v \div 65536) % 256,
     (v \div 16777216) % 256, 0, 0, 0, 0 >>

\* result of ntohs(v): v truncated to 16 bits, octets swapped
ntohs(v) == (v % 256) * 256 + ((v \div 256) % 256)

\* ipfix_build_v10_packet: the header fields it sets, and one data set
\* holding the fields of the record copied in template order
\* (uid and snap are history fields: the record the packet was built from)
ipfix_build_v10_packet(rec, ts) ==
  [ version |-> ntohs(10),
    timestamp |-> ntohs(ts.tv_sec),
    sets |-> << << rec.flow_key.src, rec.flow_key.dst,
                   <<rec.flow_key.protocol>>,
                   rec.flow_key.src_port, rec.flow_key.dst_port,
                   u64_image(rec.flow_start), u64_image(rec.flow_end),
                   rec.octet_delta_count, rec.packet_delta_count >> >>,
    uid |-> rec.uid, snap |-> rec ]

\* one iteration of the loop over expired_records
encode_step ==
  /\ pc = "encode"
  /\ record_idx < Len(expired_records)
  /\ data_packets' = Append(data_packets,
                       ipfix_build_v10_packet(expired_records[record_idx + 1], clock))
  /\ expired_records' = vec_del1(expired_records, record_idx)
  /\ record_idx' = record_idx + 1
  /\ hist' = IF hist.on
             THEN [hist EXCEPT !.encoded =
                     Append(@, SnapId(expired_records[record_idx + 1]))]
             ELSE hist
  /\ UNCHANGED <<clock, flow_records, flow_len, flow_hash, sent, pc,
                 current_time, npkts, run, last_rec, visited, node, keyio>>

encode_end ==
  /\ pc = "encode"
  /\ record_idx >= Len(expired_records)
  /\ pc' = "send"
  /\ record_idx' = 0
  /\ UNCHANGED <<clock, flow_records, flow_len, flow_hash, expired_records,
                 data_packets, sent, current_time, npkts, run, last_rec,
                 visited, node, hist, keyio>>

\* sizes of the fields of the one template set, in template order
TemplateSizes == <<4, 4, 1, 2, 2, 8, 8, 8, 8>>

RECURSIVE SumSeq(_)
SumSeq(q) == IF q = << >> THEN 0 ELSE Head(q) + SumSeq(Tail(q))

\* sizeof(netflow_v10_header_t) and sizeof(netflow_v10_set_header_t)
V10_HEADER_SIZE == 16
V10_SET_HEADER_SIZE == 4

\* what memory that was never written may hold: a 32-bit word, an octet.
\* The packet of the encoding loop is one stack slot of the process node,
\* which nothing else writes, so its content is the same at every use
UninitWords == {0, 7}
UninitOctets == {0, 170}

\* ipfix_write_v10_data_packet: the header is copied as it is (seq is what
\* the never written sequence number holds), then for the one set
\* set_length octets are copied from the address of the data set itself
\* (its never written header, the pointer to the data, and what follows),
\* not from data_set->data; written counts the sets only
ipfix_write_v10_data_packet(packet, seq, junk) ==
  LET set_length == V10_SET_HEADER_SIZE + SumSeq(TemplateSizes)
  IN [ header |-> [ version |-> packet.version,
                    timestamp |-> packet.timestamp,
                    sequence_number |-> seq ],
       header_octets |-> V10_HEADER_SIZE,
       sets |-> << [i \in 1..set_length |-> junk] >>,
       written |-> set_length ]

\* ipfix_send_packet: the buffer handed to ip4-lookup, lengths as the
\* values that go on the wire (snap is a history field)
ipfix_send_packet(packet, seq, junk) ==
  LET w == ipfix_write_v10_data_packet(packet, seq, junk)
      payload_length == w.written
  IN [ ttl |-> 64,
       protocol |-> 17,
       current_length |-> 20 + 8 + payload_length,
       ip_length |-> 20 + 8 + payload_length,
       udp_length |-> 8 + payload_length,
       message |-> [ header |-> w.header,
                     header_octets |-> w.header_octets,
                     sets |-> w.sets ],
       snap |-> packet.snap ]

\* one iteration of the loop over data_packets: ipfix_send_packet,
\* ipfix_free_v10_packet, vec_del1
send_step ==
  /\ pc = "send"
  /\ record_idx < Len(data_packets)
  /\ sent' = Append(sent, data_packets[record_idx + 1])
  /\ data_packets' = vec_del1(data_packets, record_idx)
  /\ record_idx' = record_idx + 1
  /\ hist' = IF hist.on
             THEN [hist EXCEPT !.wire =
                     Append(@, ipfix_send_packet(data_packets[record_idx + 1],
                                                 hist.seq, hist.junk))]
             ELSE hist
  /\ UNCHANGED <<clock, flow_records, flow_len, flow_hash, expired_records,
                 pc, current_time, npkts, run, last_rec, visited, node,
                 keyio>>

\* back to vlib_process_wait_for_event_or_clock
send_end ==
  /\ pc = "send"
  /\ record_idx >= Len(data_packets)
  /\ pc' = "wait"
  /\ record_idx' = 0
  /\ hist' = IF hist.on THEN [hist EXCEPT !.last_tick = current_time]
             ELSE hist
  /\ UNCHANGED <<clock, flow_records, flow_len, flow_hash, expired_records,
                 data_packets, sent, current_time, npkts, run, last_rec,
                 visited, node, keyio>>

----------------------------------------------------------------------------
(* Fast path: ipfix_node_fn on a frame of packets *)

\* frames dispatched in one behaviour, packets in a frame, and the free
\* slots vlib_get_next_frame may report
MaxFrames == 2
MaxFrameLen == 5
MaxSlots == 3

\* a TCP flow between the two hosts
TcpHeader ==
  [src_address |-> HostA, dst_address |-> HostB, protocol |-> 6,
   l4_word0 |-> <<3, 232>>, l4_word1 |-> <<0, 53>>]

\* the packet at position i of a frame: four flows in turn
FramePacket(i) ==
  [ hdr |-> CASE i % 4 = 1 ->
                   [src_address |-> HostA, dst_address |-> HostB,
                    protocol |-> 17,
                    l4_word0 |-> <<3, 232>>, l4_word1 |-> <<0, 53>>]
              [] i % 4 = 2 ->
                   [src_address |-> HostB, dst_address |-> HostA,
                    protocol |-> 17,
                    l4_word0 |-> <<0, 53>>, l4_word1 |-> <<3, 232>>]
              [] i % 4 = 3 ->
                   [src_address |-> HostA, dst_address |-> HostB,
                    protocol |-> 1,
                    l4_word0 |-> <<8, 0>>, l4_word1 |-> <<247, 255>>]
              [] OTHER -> TcpHeader,
    length |-> IF i % 2 = 1 THEN 40 ELSE 300 ]

Frames ==
  { [i \in 1..n |-> FramePacket(i)] : n \in 0..MaxFrameLen }

\* the dispatcher calls ipfix_node_fn with a frame (one that fits into
\* what is left of the modelled capacity of flow_records)
node_begin(f) ==
  /\ process_suspended
  /\ node.pc = "idle"
  /\ node.nframes < MaxFrames
  /\ npkts + Len(f) <= Len(flow_records)
  /\ node' = [ pc |-> "outer", frame |-> f, from |-> 0,
               n_left_from |-> Len(f), n_left_to_next |-> 0, bi1 |-> 0,
               to_next |-> << >>, calls |-> << >>, ret |-> 0,
               nframes |-> node.nframes + 1 ]
  /\ UNCHANGED <<clock, flow_records, flow_len, flow_hash, expired_records,
                 data_packets, sent, pc, current_time, record_idx, npkts,
                 run, last_rec, visited, hist, keyio>>

\* while (n_left_from > 0): vlib_get_next_frame gives a next frame with at
\* least one free slot
node_next_frame ==
  /\ pc = "wait"
  /\ node.pc = "outer"
  /\ node.n_left_from > 0
  /\ \E n \in 1..MaxSlots :
       node' = [node EXCEPT !.pc = "dual", !.n_left_to_next = n]
  /\ UNCHANGED <<clock, flow_records, flow_len, flow_hash, expired_records,
                 data_packets, sent, pc, current_time, record_idx, npkts,
                 run, last_rec, visited, hist, keyio>>

\* dual loop: enqueue from[0] and from[1], advance, process_packet(ip0)
node_dual0 ==
  /\ node.pc = "dual"
  /\ node.n_left_from >= 4 /\ node.n_left_to_next >= 2
  /\ process_packet(node.frame[node.from + 1])

\* dual loop: process_packet(ip1)
node_dual1 ==
  /\ node.pc = "dual1"
  /\ process_packet(node.frame[node.bi1])

\* the condition of the dual loop is false: on to the single loop
node_dual_exit ==
  /\ pc = "wait"
  /\ node.pc = "dual"
  /\ ~ (node.n_left_from >= 4 /\ node.n_left_to_next >= 2)
  /\ node' = [node EXCEPT !.pc = "single"]
  /\ UNCHANGED <<clock, flow_records, flow_len, flow_hash, expired_records,
                 data_packets, sent, pc, current_time, record_idx, npkts,
                 run, last_rec, visited, hist, keyio>>

\* single loop: enqueue from[0], advance, process_packet(ip0)
node_single ==
  /\ node.pc = "single"
  /\ node.n_left_from > 0 /\ node.n_left_to_next > 0
  /\ process_packet(node.frame[node.from + 1])

\* the condition of the single loop is false: vlib_put_next_frame
node_put_frame ==
  /\ pc = "wait"
  /\ node.pc = "single"
  /\ ~ (node.n_left_from > 0 /\ node.n_left_to_next > 0)
  /\ node' = [node EXCEPT !.pc = "outer"]
  /\ UNCHANGED <<clock, flow_records, flow_len, flow_hash, expired_records,
                 data_packets, sent, pc, current_time, record_idx, npkts,
                 run, last_rec, visited, hist, keyio>>

\* n_left_from = 0: return frame->n_vectors
node_return ==
  /\ pc = "wait"
  /\ node.pc = "outer"
  /\ node.n_left_from = 0
  /\ node' = [node EXCEPT !.pc = "idle", !.ret = Len(node.frame)]
  /\ UNCHANGED <<clock, flow_records, flow_len, flow_hash, expired_records,
                 data_packets, sent, pc, current_time, record_idx, npkts,
                 run, last_rec, visited, hist, keyio>>

----------------------------------------------------------------------------
(* Building the search key of two headers: process_packet up to the lookup *)

\* headers over two hosts, three protocols and two values of each of the
\* two 16-bit words after the IPv4 header
KeyHeaders ==
  [ src_address : {HostA, HostB}, dst_address : {HostA, HostB},
    protocol : {1, TCP_PROTOCOL, UDP_PROTOCOL},
    l4_word0 : {<<3, 232>>, <<0, 53>>}, l4_word1 : {<<3, 232>>, <<0, 53>>} ]

\* what the octets of search.key outside the five fields hold on entry
StaleOctets == {0, 170}

\* memset(&search, 0, sizeof(clib_bihash_kv_48_8_t)), then
\* create_flow_key on search.key: rest is every octet of the key that is
\* not part of one of the five fields
search_key(h, stale) ==
  [ fields |-> create_flow_key(h), rest |-> 0 ]

KeyInit ==
  /\ clock = [tv_sec |-> 0, tv_nsec |-> 0]
  /\ flow_records = [i \in 1..MaxPackets |-> ZeroRec]
  /\ flow_len = 0
  /\ flow_hash = [x \in {} |-> 0]
  /\ expired_records = << >>
  /\ data_packets = << >>
  /\ sent = << >>
  /\ pc = "wait"
  /\ current_time = 0
  /\ record_idx = 0
  /\ npkts = 0
  /\ run = NoRun
  /\ last_rec = ZeroRec
  /\ visited = << >>
  /\ node = NodeIdle
  /\ hist = HistOff
  /\ \E h1 \in KeyHeaders, h2 \in KeyHeaders,
        s1 \in StaleOctets, s2 \in StaleOctets :
       keyio = [ phase |-> "in", h1 |-> h1, h2 |-> h2, s1 |-> s1, s2 |-> s2 ]

build_keys ==
  /\ keyio.phase = "in"
  /\ keyio' = [ phase |-> "out", h1 |-> keyio.h1, h2 |-> keyio.h2,
                k1 |-> search_key(keyio.h1, keyio.s1),
                k2 |-> search_key(keyio.h2, keyio.s2) ]
  /\ UNCHANGED <<clock, flow_records, flow_len, flow_hash, expired_records,
                 data_packets, sent, pc, current_time, record_idx, npkts,
                 run, last_rec, visited, node, hist>>

KeyNext == build_keys

KeySpec == KeyInit /\ [][KeyNext]_vars

----------------------------------------------------------------------------
(* The counters of one record: process_packet on a key the index holds *)

\* a counter field holding htonl(c) for a 32-bit c (every c is the count
\* or the octet total of some run of packets of one flow)
CounterFields ==
  { <<a, b, c, d, 0, 0, 0, 0>> : a \in {0, 255}, b \in {0, 255},
                                 c \in {0, 255}, d \in {0, 1, 255} }

\* ntohs(packet->length): the extremes of an IPv4 total length, and two
\* usual sizes
CounterLengths == {20, 40, 1500, 65535}

CounterInit ==
  /\ clock = [tv_sec |-> 0, tv_nsec |-> 0]
  /\ flow_records = [i \in 1..MaxPackets |-> ZeroRec]
  /\ flow_len = 0
  /\ flow_hash = [x \in {} |-> 0]
  /\ expired_records = << >>
  /\ data_packets = << >>
  /\ sent = << >>
  /\ pc = "wait"
  /\ current_time = 0
  /\ record_idx = 0
  /\ npkts = 0
  /\ run = NoRun
  /\ last_rec = ZeroRec
  /\ visited = << >>
  /\ node = NodeIdle
  /\ hist = HistOff
  /\ \E pk \in CounterFields, oc \in CounterFields, l \in CounterLengths :
       keyio = [ phase |-> "record",
                 rec |-> [ZeroRec EXCEPT !.packet_delta_count = pk,
                                         !.octet_delta_count = oc],
                 length |-> l ]

\* the update branch of process_packet on that record
apply_update ==
  /\ keyio.phase = "record"
  /\ keyio' = [ phase |-> "updated", rec |-> keyio.rec,
                length |-> keyio.length,
                new |-> update_record(keyio.rec, NowMs(clock), keyio.length) ]
  /\ UNCHANGED <<clock, flow_records, flow_len, flow_hash, expired_records,
                 data_packets, sent, pc, current_time, record_idx, npkts,
                 run, last_rec, visited, node, hist>>

CounterNext == apply_update

CounterSpec == CounterInit /\ [][CounterNext]_vars

----------------------------------------------------------------------------
(* The two nodes under the dispatcher *)

FrameInit ==
  /\ clock = [tv_sec |-> 0, tv_nsec |-> 0]
  /\ flow_records = [i \in 1..(MaxFrameLen + 1) |-> ZeroRec]
  /\ flow_len = 0
  /\ flow_hash = [x \in {} |-> 0]
  /\ expired_records = << >>
  /\ data_packets = << >>
  /\ sent = << >>
  /\ pc = "wait"
  /\ current_time = 0
  /\ record_idx = 0
  /\ npkts = 0
  /\ run = NoRun
  /\ last_rec = ZeroRec
  /\ visited = << >>
  /\ node = NodeIdle
  /\ hist = HistOff
  /\ keyio = KeyIdle

FrameNext ==
  \/ \E f \in Frames : node_begin(f)
  \/ node_next_frame
  \/ node_dual0
  \/ node_dual1
  \/ node_dual_exit
  \/ node_single
  \/ node_put_frame
  \/ node_return
  \/ Tick
  \/ scan_begin
  \/ scan_idle
  \/ scan_active
  \/ scan_keep
  \/ scan_end
  \/ encode_step
  \/ encode_end
  \/ send_step
  \/ send_end

FrameSpec == FrameInit /\ [][FrameNext]_vars

----------------------------------------------------------------------------
(* The export pipeline with its history, fed by full frames of four flows *)

ExportFrames == { [i \in 1..4 |-> FramePacket(i)] }

ExportInit ==
  /\ clock = [tv_sec |-> 0, tv_nsec |-> 0]
  /\ flow_records = [i \in 1..(MaxFrames * 4) |-> ZeroRec]
  /\ flow_len = 0
  /\ flow_hash = [x \in {} |-> 0]
  /\ expired_records = << >>
  /\ data_packets = << >>
  /\ sent = << >>
  /\ pc = "wait"
  /\ current_time = 0
  /\ record_idx = 0
  /\ npkts = 0
  /\ run = NoRun
  /\ last_rec = ZeroRec
  /\ visited = << >>
  /\ node = NodeIdle
  /\ \E seq \in UninitWords, junk \in UninitOctets :
       hist = [HistOff EXCEPT !.on = TRUE, !.seq = seq, !.junk = junk]
  /\ keyio = KeyIdle

ExportNext ==
  \/ \E f \in ExportFrames : node_begin(f)
  \/ node_next_frame
  \/ node_dual0
  \/ node_dual1
  \/ node_dual_exit
  \/ node_single
  \/ node_put_frame
  \/ node_return
  \/ Tick
  \/ scan_begin
  \/ scan_idle
  \/ scan_active
  \/ scan_keep
  \/ scan_end
  \/ encode_step
  \/ encode_end
  \/ send_step
  \/ send_end

ExportSpec == ExportInit /\ [][ExportNext]_vars

\* a step of the process node once it is resumed, and the resumption itself:
\* the wait returns at the latest when the poll period is over
ProcessStep ==
  \/ scan_begin
  \/ scan_idle
  \/ scan_active
  \/ scan_keep
  \/ scan_end
  \/ encode_step
  \/ encode_end
  \/ send_step
  \/ send_end

\* a step of ipfix_node_fn after its entry
NodeStep ==
  \/ node_next_frame
  \/ node_dual0
  \/ node_dual1
  \/ node_dual_exit
  \/ node_single
  \/ node_put_frame
  \/ node_return

\* the full frame of four flows
FramePacketsAll == [i \in 1..4 |-> FramePacket(i)]

\* the full frame, or a frame of one packet of the first flow
ExportFairFrames == { FramePacketsAll, SubSeq(FramePacketsAll, 1, 1) }

ExportFairNext ==
  \/ \E f \in ExportFairFrames : node_begin(f)
  \/ NodeStep
  \/ Tick
  \/ ProcessStep

\* both functions are sequential code that runs on, and the process node is
\* resumed again and again
ExportFairInit ==
  /\ clock = [tv_sec |-> 0, tv_nsec |-> 0]
  /\ flow_records = [i \in 1..(Len(FramePacketsAll) + 1) |-> ZeroRec]
  /\ flow_len = 0
  /\ flow_hash = [x \in {} |-> 0]
  /\ expired_records = << >>
  /\ data_packets = << >>
  /\ sent = << >>
  /\ pc = "wait"
  /\ current_time = 0
  /\ record_idx = 0
  /\ npkts = 0
  /\ run = NoRun
  /\ last_rec = ZeroRec
  /\ visited = << >>
  /\ node = NodeIdle
  /\ \E seq \in UninitWords, junk \in UninitOctets :
       hist = [HistOff EXCEPT !.on = TRUE, !.seq = seq, !.junk = junk]
  /\ keyio = KeyIdle

ExportFairSpec ==
  /\ ExportFairInit
  /\ [][ExportFairNext]_vars
  /\ WF_vars(ProcessStep)
  /\ WF_vars(NodeStep)

----------------------------------------------------------------------------

Next ==
  \/ \E p \in Packets : process_packet(p)
  \/ Tick
  \/ scan_begin
  \/ scan_idle
  \/ scan_active
  \/ scan_keep
  \/ scan_end
  \/ encode_step
  \/ encode_end
  \/ send_step
  \/ send_end

Spec == Init /\ [][Next]_vars

----------------------------------------------------------------------------
(* Properties *)

\* the records in the flow table
Live == { flow_records[i] : i \in 1..flow_len }

\* the record the scan is about to read
ScanRec == flow_records[record_idx + 1]

\* the process node is about to run one iteration of the scan loop
AtScanStep == pc = "scan" /\ record_idx < flow_len

C2_OneRecordPerKey ==
  \A i, j \in 1..flow_len :
    flow_records[i].flow_key = flow_records[j].flow_key => i = j

\* C3: between operations, a key has a record in the table iff it has an
\* entry in the index, and the entry is the position of the record of that key
C3_TableMatchesIndex ==
  pc = "wait" =>
    /\ \A r \in Live : r.flow_key \in DOMAIN flow_hash
    /\ \A k \in DOMAIN flow_hash :
         /\ flow_hash[k] < flow_len
         /\ flow_records[flow_hash[k] + 1].flow_key = k

\* C4: the iteration that idle-expires record r removes r's own key from
\* the index and leaves every other key in it
C4_RemovesOwnKey ==
  [][ (AtScanStep /\ idle_expired(ScanRec, current_time)) =>
        /\ ScanRec.flow_key \notin DOMAIN flow_hash'
        /\ \A k \in DOMAIN flow_hash :
             k # ScanRec.flow_key => k \in DOMAIN flow_hash' ]_vars

\* C5: when the scan loop is over, no record it did not read satisfies an
\* expiry condition at current_time, and no record was read twice
C5_NoRecordSkipped ==
  (pc = "encode" /\ record_idx = 0) =>
    /\ \A r \in Live :
         (\A i \in 1..Len(visited) : visited[i] # r.uid) =>
            classify(r, current_time) = "keep"
    /\ \A i, j \in 1..Len(visited) : visited[i] = visited[j] => i = j

\* C6: an iteration that reads a record with flow_end + idle_flow_timeout =
\* current_time and flow_start + active_flow_timeout >= current_time changes
\* neither the table, nor the index, nor the expired queue
C6_IdleIsStrict ==
  [][ ( /\ AtScanStep
        /\ ScanRec.flow_end + idle_flow_timeout = current_time
        /\ ScanRec.flow_start + active_flow_timeout >= current_time ) =>
        /\ expired_records' = expired_records
        /\ flow_records' = flow_records
        /\ flow_len' = flow_len
        /\ flow_hash' = flow_hash ]_vars

C6_Witness ==
  /\ pc = "scan"
  /\ record_idx > 0
  /\ last_rec.uid # 0
  /\ last_rec.flow_end + idle_flow_timeout = current_time
  /\ last_rec.flow_start + active_flow_timeout >= current_time
  /\ record_idx <= flow_len
  /\ flow_records[record_idx] = last_rec

\* C7: an iteration that reads a record satisfying both the idle and the
\* active condition queues exactly one snapshot of it and removes it from the
\* table; it is not left in the table reset
C7_IdleWins ==
  [][ ( /\ AtScanStep
        /\ ScanRec.flow_end + idle_flow_timeout < current_time
        /\ ScanRec.flow_start + active_flow_timeout < current_time ) =>
        /\ expired_records' = Append(expired_records, ScanRec)
        /\ flow_len' = flow_len - 1
        /\ \A i \in 1..flow_len' : flow_records'[i].uid # ScanRec.uid ]_vars

C7_Witness ==
  /\ pc = "scan"
  /\ record_idx > 0
  /\ last_rec.uid # 0
  /\ last_rec.flow_end + idle_flow_timeout < current_time
  /\ last_rec.flow_start + active_flow_timeout < current_time
  /\ Len(expired_records) > 0
  /\ expired_records[Len(expired_records)] = last_rec
  /\ \A r \in Live : r.uid # last_rec.uid

\* C8: an iteration that active-expires a record queues the record as it
\* was, and leaves it in the table and in the index under its key with
\* flow_start = flow_end = current_time and both counters 0; the next packet
\* of that key makes its packet_count 1
C8_ActiveRotation ==
  [][ /\ ( /\ AtScanStep
           /\ ~ idle_expired(ScanRec, current_time)
           /\ active_expired(ScanRec, current_time) ) =>
           /\ expired_records' = Append(expired_records, ScanRec)
           /\ flow_len' = flow_len
           /\ flow_records'[record_idx + 1].flow_key = ScanRec.flow_key
           /\ flow_records'[record_idx + 1].flow_start = current_time
           /\ flow_records'[record_idx + 1].flow_end = current_time
           /\ ntohl(flow_records'[record_idx + 1].packet_delta_count) = 0
           /\ ntohl(flow_records'[record_idx + 1].octet_delta_count) = 0
           /\ ScanRec.flow_key \in DOMAIN flow_hash'
           /\ flow_hash'[ScanRec.flow_key] = record_idx
      /\ \A p \in Packets : \A i \in 1..flow_len :
           ( /\ process_packet(p)
             /\ pc' = "wait"
             /\ flow_records[i].rot
             /\ flow_records[i].flow_key = create_flow_key(p.hdr) ) =>
             ntohl(flow_records'[i].packet_delta_count) = 1 ]_vars

C10_PacketLeavesRecord ==
  [][ \A p \in Packets :
        (process_packet(p) /\ pc' = "wait") =>
          LET key == create_flow_key(p.hdr)
          IN /\ key \in DOMAIN flow_hash'
             /\ flow_hash'[key] < flow_len'
             /\ flow_records'[flow_hash'[key] + 1].flow_key = key
             /\ flow_records'[flow_hash'[key] + 1].flow_end >= NowMs(clock) ]_vars

\* C14: a record stays at the position where it was inserted for as long as
\* it is in the table: no step moves a record of the table to another position
C14_PositionStable ==
  [][ \A i \in 1..flow_len : \A j \in 1..flow_len' :
        flow_records[i].uid = flow_records'[j].uid => i = j ]_vars

\* C16: whenever the process node is at its wait (before a tick and after it),
\* the expired queue and the message queue are both empty
C16_QueuesEmptyAtWait ==
  pc = "wait" => expired_records = << >> /\ data_packets = << >>

\* C20: the key built from a header has the header's source address,
\* destination address and protocol, the two ports of the transport header
\* when the protocol is 6 or 17 and zero ports otherwise, and zero in every
\* other octet; the keys of two headers are equal exactly when their
\* 5-tuples are, and the two directions of a conversation get different keys
C20_FlowKey ==
  keyio.phase = "out" =>
    LET ported(h) == h.protocol \in {6, 17}
        built(h, k) ==
          /\ DOMAIN k.fields = {"src", "dst", "protocol", "src_port", "dst_port"}
          /\ k.fields.src = h.src_address
          /\ k.fields.dst = h.dst_address
          /\ k.fields.protocol = h.protocol
          /\ IF ported(h)
             THEN k.fields.src_port = h.l4_word0 /\ k.fields.dst_port = h.l4_word1
             ELSE k.fields.src_port = <<0, 0>> /\ k.fields.dst_port = <<0, 0>>
          /\ k.rest = 0
        same5(a, b) ==
          /\ a.src_address = b.src_address
          /\ a.dst_address = b.dst_address
          /\ a.protocol = b.protocol
          /\ ported(a) => a.l4_word0 = b.l4_word0 /\ a.l4_word1 = b.l4_word1
        reverse(a, b) ==
          /\ b.src_address = a.dst_address
          /\ b.dst_address = a.src_address
          /\ b.protocol = a.protocol
          /\ b.l4_word0 = a.l4_word1
          /\ b.l4_word1 = a.l4_word0
        two_ends(a) ==
          \/ a.src_address # a.dst_address
          \/ ported(a) /\ a.l4_word0 # a.l4_word1
    IN /\ built(keyio.h1, keyio.k1)
       /\ built(keyio.h2, keyio.k2)
       /\ (keyio.k1 = keyio.k2) <=> same5(keyio.h1, keyio.h2)
       /\ (reverse(keyio.h1, keyio.h2) /\ two_ends(keyio.h1)) =>
            keyio.k1 # keyio.k2

\* two ICMP packets of one pair of hosts that differ after the IPv4 header
\* have got the same key
C20_Witness ==
  /\ keyio.phase = "out"
  /\ keyio.h1.protocol = 1
  /\ keyio.h1.l4_word0 # keyio.h2.l4_word0
  /\ keyio.k1 = keyio.k2

\* a is an initial part of b
IsPrefix(a, b) ==
  /\ Len(a) <= Len(b)
  /\ \A i \in 1..Len(a) : a[i] = b[i]

\* the snapshots of the datagrams handed to ip4-lookup, in order
Handed == [i \in 1..Len(hist.wire) |-> SnapId(hist.wire[i].snap)]

\* C11: snapshots are encoded in the order in which they were queued, and
\* datagrams are handed to the dataplane in the order in which they were
\* built, also with two or more entries in a queue and across ticks
C11_Fifo ==
  hist.on =>
    /\ IsPrefix(hist.encoded, hist.queued)
    /\ IsPrefix(Handed, hist.encoded)

\* C12: a tick that runs at the same now_ms as the tick before it, with no
\* packet processed in between, leaves the flow table and the index as they
\* are and queues no snapshot
C12_ScanIdempotent ==
  [][ (pc = "scan" /\ hist.repeat) =>
        /\ flow_len' = flow_len
        /\ \A i \in 1..flow_len : flow_records'[i] = flow_records[i]
        /\ flow_hash' = flow_hash
        /\ expired_records' = expired_records ]_vars

\* C13: the sequence number in the header of each message handed to the
\* dataplane is the number of data records of all messages before it
C13_SequenceNumber ==
  \A i \in 1..Len(hist.wire) :
    hist.wire[i].message.header.sequence_number =
      SumSeq([j \in 1..(i - 1) |-> Len(hist.wire[j].message.sets)])

\* C15: when ipfix_node_fn has returned for a frame of n packets it has
\* called process_packet once for each packet, in frame order, has enqueued
\* each buffer once to the next node, and has returned n
C15_FrameOnce ==
  (node.pc = "idle" /\ node.nframes > 0) =>
    LET n == Len(node.frame)
    IN /\ node.ret = n
       /\ Len(node.calls) = n
       /\ \A i \in 1..n : node.calls[i] = i
       /\ Len(node.to_next) = n
       /\ \A i \in 1..n : node.to_next[i] = i

\* a frame of five packets went through the dual and the single loop, with
\* four insertions and one update
C15_Witness ==
  /\ node.pc = "idle"
  /\ Len(node.frame) >= 5
  /\ node.ret = Len(node.frame)
  /\ flow_len = 4
  /\ pc = "wait"

\* C17: in every datagram the UDP length is 8 plus the octets of the message
\* after the UDP header (message header and all sets), the IPv4 total length
\* is 20 plus the UDP length, and the buffer's current length is the IPv4
\* total length
C17_Lengths ==
  \A i \in 1..Len(hist.wire) :
    LET d == hist.wire[i]
        message_octets ==
          d.message.header_octets +
          SumSeq([k \in 1..Len(d.message.sets) |-> Len(d.message.sets[k])])
    IN /\ d.udp_length = 8 + message_octets
       /\ d.ip_length = 20 + d.udp_length
       /\ d.current_length = d.ip_length

BigEndian64(v) ==
  << 0, 0, 0, 0, (v \div 16777216) % 256, (v \div 65536) % 256,
     (v \div 256) % 256, v % 256 >>

\* the data set of a snapshot as the template lays it out
WireDataSet(rec) ==
  <<0, 1, 0, 49>> \o rec.flow_key.src \o rec.flow_key.dst
    \o <<rec.flow_key.protocol>>
    \o rec.flow_key.src_port \o rec.flow_key.dst_port
    \o BigEndian64(rec.flow_start) \o BigEndian64(rec.flow_end)
    \o BigEndian64(ntohl(rec.octet_delta_count))
    \o BigEndian64(ntohl(rec.packet_delta_count))

\* C19: the data set on the wire for a snapshot is the set header (set_id 1,
\* length 49) followed by the 45 octets of the record in template order,
\* timestamps and counters as 8-octet big-endian values
C19_WireDataSet ==
  \A i \in 1..Len(hist.wire) :
    LET d == hist.wire[i]
    IN /\ Len(d.message.sets) = 1
       /\ d.message.sets[1] = WireDataSet(d.snap)

\* the 64-bit number a counter field stands for (the field holds the
\* result of htonl), as 8 octets, most significant first
Counter64(f) == <<0, 0, 0, 0, f[1], f[2], f[3], f[4]>>

\* w + n for a 64-bit w given as 8 octets, most significant first, on
\* 16-bit limbs; n is below 2^16
Add64(w, n) ==
  LET l4 == w[7] * 256 + w[8] + n
      l3 == w[5] * 256 + w[6] + (l4 \div 65536)
      l2 == w[3] * 256 + w[4] + (l3 \div 65536)
      l1 == w[1] * 256 + w[2] + (l2 \div 65536)
  IN << (l1 \div 256) % 256, l1 % 256, (l2 \div 256) % 256, l2 % 256,
        (l3 \div 256) % 256, l3 % 256, (l4 \div 256) % 256, l4 % 256 >>

\* C21: the counters are 64-bit: a packet of length L on a record with P
\* packets and O octets leaves P + 1 packets and O + L octets, also when the
\* sum reaches 2^32
C21_Counters64 ==
  keyio.phase = "updated" =>
    /\ Counter64(keyio.new.packet_delta_count) =
         Add64(Counter64(keyio.rec.packet_delta_count), 1)
    /\ Counter64(keyio.new.octet_delta_count) =
         Add64(Counter64(keyio.rec.octet_delta_count), keyio.length)

\* C22: whenever process_packet can run, every value stored in the index is
\* a position of flow_records (below its length), so the update path reads
\* and writes a slot of the vector
C22_IndexInRange ==
  pc = "wait" => \A k \in DOMAIN flow_hash : flow_hash[k] < flow_len

\* C23: a process_packet on a packet of key K leaves every record of the
\* table whose key is not K as it was, and leaves the index entry of every
\* key other than K as it was
C23_PacketFrame ==
  [][ \A p \in Packets :
        (process_packet(p) /\ pc' = "wait") =>
          LET K == create_flow_key(p.hdr)
          IN /\ \A i \in 1..flow_len :
                  flow_records[i].flow_key # K =>
                    flow_records'[i] = flow_records[i]
             /\ \A k \in DOMAIN flow_hash :
                  k # K => k \in DOMAIN flow_hash' /\ flow_hash'[k] = flow_hash[k] ]_vars

\* the keys of the packets seen and of the records and snapshots
SeenKeys ==
  { create_flow_key(hist.seen[i].hdr) : i \in 1..Len(hist.seen) }

\* packets and octets of the packets of key K given to process_packet
RECURSIVE SeenOf(_, _)
SeenOf(K, q) ==
  IF q = << >> THEN [n |-> 0, octets |-> 0]
  ELSE LET rest == SeenOf(K, Tail(q))
       IN IF create_flow_key(Head(q).hdr) = K
          THEN [n |-> rest.n + 1, octets |-> rest.octets + Head(q).length]
          ELSE rest

\* packet_count and octet_count summed over the records of key K in q
RECURSIVE CreditedIn(_, _)
CreditedIn(K, q) ==
  IF q = << >> THEN [n |-> 0, octets |-> 0]
  ELSE LET rest == CreditedIn(K, Tail(q))
       IN IF Head(q).flow_key = K
          THEN [n |-> rest.n + ntohl(Head(q).packet_delta_count),
                octets |-> rest.octets + ntohl(Head(q).octet_delta_count)]
          ELSE rest

\* C25: for every key K the packets and octets seen with key K are the
\* packet_count and octet_count summed over the snapshots of K ever queued
\* plus those of the record of K in the table
C25_Conservation ==
  (hist.on /\ pc # "abort") =>
    \A K \in SeenKeys :
      LET seen == SeenOf(K, hist.seen)
          snap == CreditedIn(K, hist.snaps)
          live == CreditedIn(K, SubSeq(flow_records, 1, flow_len))
      IN /\ seen.n = snap.n + live.n
         /\ seen.octets = snap.octets + live.octets

\* no element occurs twice in q
NoDup(q) == \A i, j \in 1..Len(q) : q[i] = q[j] => i = j

\* the elements of q
Range(q) == { q[i] : i \in 1..Len(q) }

\* every snapshot queued so far was handed to the dataplane
Drained ==
  /\ Len(hist.wire) = Len(hist.queued)
  /\ expired_records = << >>
  /\ data_packets = << >>

\* C24: with ticks occurring again and again, every snapshot queued is
\* encoded into one datagram and that datagram is handed to the dataplane
\* once: none is encoded or handed twice, only queued ones are encoded and
\* only encoded ones handed, and again and again nothing queued is left over
C24_AllExported ==
  /\ [] ( /\ NoDup(hist.encoded)
          /\ NoDup(Handed)
          /\ Range(Handed) \subseteq Range(hist.encoded)
          /\ Range(hist.encoded) \subseteq Range(hist.queued)
          /\ Len(hist.queued) =
               Len(expired_records) + Len(data_packets) + Len(hist.wire) )
  /\ []<>(Drained \/ pc = "abort")

\* four snapshots were queued by one scan and, ticks later, all of them
\* have been handed to the dataplane
C24_Witness ==
  /\ pc = "wait"
  /\ Len(hist.queued) >= 4
  /\ hist.queued[1][2] = hist.queued[4][2]
  /\ Drained

====
